---- MODULE Spec2Model ----
(***************************************************************************)
(* Room messaging and lifecycle of the peer chat: ChatRoom (JoinRoom, the  *)
(* inbound loop listenForMessages, the outbound loop publishMessages,      *)
(* SendFile, Leave) from peerchat-main/src/chat.go and the UI dispatcher   *)
(* (starteventhandler, handlecommand) of the terminal UI.                  *)
(*                                                                         *)
(* Go channels made without a capacity are rendezvous channels: a send and *)
(* its receive are one step, enabled only when both sides stand at it.     *)
(* Every goroutine is a process with a position (pc).                      *)
(***************************************************************************)
EXTENDS Integers, Sequences, FiniteSets, TLC

\* ------------------------------------------------------------------ bounds
\* '/r <name>' commands the user issues in one run
MaxSwitches == 2
\* texts the user types in one run
MaxMsgs == 2
\* '/r <name>' commands in the runs that mix texts with room switches
ChatSwitches == 1
\* SendFile calls of the sending peer in one run
MaxSends == 2
\* texts other peers publish in one run
MaxRemote == 2
\* '/r <name>' commands in the runs with texts of other peers
InSwitches == 1
\* commands other than '/r <name>' the user issues in one run
MaxCmds == 2
MaxJoins == 2
MaxChunks == 3

\* ------------------------------------------------------ program constants
\* const chunkSize in SendFile
ChunkSize == 4096
\* const maxFileSize in SendFile (100 * 1024)
MaxFileSize == 102400

\* room names the user passes to '/r'
RoomArgs == {"b", "c"}
\* base names of the files the user passes to '/send'
FileNames == {"f", "g"}
\* sizes of those files: empty, less than a chunk, one and two full chunks,
\* two chunks and a partial one, and one byte over the ceiling
FileSizes ==
    {0, 1808, ChunkSize, 2 * ChunkSize, 2 * ChunkSize + 1808, MaxFileSize + 1}
\* names the user passes to '/u'
UserArgs == {"carol"}
\* hostID.Pretty() and Username of the sending peer, hostID of the receiving peer
SenderID == "QmAlice"
SenderName == "alice"
ReceiverID == "QmBob"
\* Username of the second peer and the room it has joined
ReceiverName == "bob"
PeerRoom == "lobby"
\* the rooms other peers publish in
RemoteRooms == {PeerRoom} \cup RoomArgs

VARIABLES
    rooms,      \* every ChatRoom JoinRoom has returned, in creation order
    active,     \* ui.ChatRoom: index into rooms
    ev,         \* the goroutine running UI.starteventhandler
    sw,         \* the goroutines running UI.handlecommand for '/r', in spawn order
    nextMsg,    \* number of the next text the user types
    sends,      \* every SendFile call so far: its file and how it ended
    net,        \* chunk records published and not yet handed out by sub.Next
    fileChunks, \* the fileChunks map of the receiving peer's listenForMessages
    rcv,        \* the receiving peer's listenForMessages goroutine, with the
                \* file name and index of every chunk it has taken, in order
    completed,  \* the calls of assembleAndSaveFile, in order
    wire,       \* every record published on a topic, in order, with its topic
    peer,       \* the listenForMessages goroutine of a second peer
    cmds,       \* the goroutines running UI.handlecommand for other commands,
                \* and other goroutines calling operations of a ChatRoom
    app,        \* UI.Run: the terminal application and what it has shown
    joins       \* the calls of JoinRoom made from outside a '/r', with their results

uiVars == <<rooms, active, ev, sw, nextMsg>>
fileVars == <<sends, net, fileChunks, rcv, completed>>
pubsubVars == <<wire, peer>>
cmdVars == <<cmds, app, joins>>
vars == <<uiVars, fileVars, pubsubVars, cmdVars>>

RoomIds == 1..Len(rooms)
SwIds == 1..Len(sw)
CmdIds == 1..Len(cmds)

\* --------------------------------------------------------------- ChatRoom
\* The ChatRoom JoinRoom builds: fresh channels, a fresh context, both loops
\* started. A fresh context is not done, so the first pass of listenForMessages
\* takes the default branch of its select and blocks in c.sub.Next; the loops
\* are taken to stand at their blocking calls when JoinRoom's caller goes on.
NewRoom(username, room) ==
    [ name         |-> IF room = "" THEN "lobby" ELSE room,
      user         |-> IF username = "" THEN "guest" ELSE username,
      cancelled    |-> FALSE,    \* roomCtx.Done() is closed
      subCancels   |-> 0,        \* calls of sub.Cancel()
      topicCloses  |-> 0,        \* calls of topic.Close()
      leaveCalls   |-> 0,        \* calls of Leave()
      leaveReturns |-> 0,        \* returns of Leave()
      incClosed    |-> FALSE,    \* close(IncomingMessages) has run
      inpc         |-> "next",   \* listenForMessages, blocked in c.sub.Next
      outpc        |-> "select", \* publishMessages
      outMsg       |-> 0,        \* the text publishMessages holds
      enq          |-> <<>>,     \* texts received from OutgoingMessages, in order
      enqUser      |-> <<>>,     \* c.Username at each of those receives
      pub          |-> <<>>,     \* records published on the topic, in order
      dropped      |-> {},       \* texts whose Publish returned an error
      subq         |-> <<>>,     \* messages the subscription holds for sub.Next
      inMsg        |-> <<>>,     \* the message listenForMessages holds
      inq          |-> <<>> ]    \* messages handed over on IncomingMessages, in order

\* The record publishMessages builds for a text (MsgType is left unset).
TextMsg(r, m) ==
    [ text |-> m, sender_name |-> rooms[r].user, msg_type |-> "" ]

\* ------------------------------------------------------ publishMessages
\* case <-c.roomCtx.Done(): return
OutObserveCancel(r) ==
    /\ rooms[r].outpc = "select"
    /\ rooms[r].cancelled
    /\ rooms' = [rooms EXCEPT ![r].outpc = "done"]
    /\ UNCHANGED <<active, ev, sw, nextMsg, fileVars, pubsubVars, cmdVars>>

\* (mutant of PublishAppend: the record goes in front of the published stream)
PublishPrepend(r, rec) ==
    [rooms EXCEPT ![r].pub = <<rec>> \o @, ![r].outpc = "select", ![r].outMsg = 0]

\* topic.Publish returned nil: the record is on the topic.
PublishAppend(r, rec) ==
    [rooms EXCEPT ![r].pub = Append(@, rec), ![r].outpc = "select", ![r].outMsg = 0]

OutPublishOk(r) ==
    /\ rooms[r].outpc = "publish"
    /\ rooms' = PublishAppend(r, TextMsg(r, rooms[r].outMsg))
    /\ UNCHANGED <<active, ev, sw, nextMsg, fileVars, pubsubVars, cmdVars>>

\* topic.Publish returned an error: the loop goes to send an error log entry.
OutPublishErr(r) ==
    /\ rooms[r].outpc = "publish"
    /\ rooms' = [rooms EXCEPT ![r].outpc = "logerr",
                              ![r].dropped = @ \cup {rooms[r].outMsg},
                              ![r].outMsg = 0]
    /\ UNCHANGED <<active, ev, sw, nextMsg, fileVars, pubsubVars, cmdVars>>

\* ---------------------------------------------------- listenForMessages
\* c.sub.Next(c.roomCtx) returns an error once the subscription is cancelled
\* and holds no more messages, or the context is done:
\* close(c.IncomingMessages), then the loop goes to send the "Subscription
\* closed unexpectedly" log entry.
InNextErr(r) ==
    /\ rooms[r].inpc = "next"
    /\ \/ rooms[r].subCancels > 0 /\ rooms[r].subq = <<>>
       \/ rooms[r].cancelled
    /\ rooms' = [rooms EXCEPT ![r].inpc = "logclosed", ![r].incClosed = TRUE]
    /\ UNCHANGED <<active, ev, sw, nextMsg, fileVars, pubsubVars, cmdVars>>

\* ------------------------------------------------- UI.starteventhandler
\* Entering the select evaluates its channel operands: ui.IncomingMessages,
\* ui.LogChannel and ui.roomCtx each read ui.ChatRoom. The reads follow one
\* another without a blocking point and are taken as one step; the select then
\* waits on the channels of the room read here, also after ui.ChatRoom changes.
EvEnterSelect ==
    /\ ev.pc = "enter"
    /\ ev' = [ev EXCEPT !.pc = "select", !.sel = active, !.zeroShown = FALSE]
    /\ UNCHANGED <<rooms, active, sw, nextMsg, fileVars, pubsubVars, cmdVars>>

\* case msg := <-ui.MsgInputs: the user typed a text; the handler goes to
\* send it on ui.OutgoingMessages, the channel of the room active right now.
EvRecvMsg ==
    /\ ev.pc = "select"
    /\ nextMsg <= MaxMsgs
    /\ ev' = [ev EXCEPT !.pc = "sendOut", !.msg = nextMsg, !.outTarget = active]
    /\ nextMsg' = nextMsg + 1
    /\ UNCHANGED <<rooms, active, sw, fileVars, pubsubVars, cmdVars>>

\* (mutant of Enqueue: the text is received and the loop does not go on to
\* publish it)
EnqueueLost(r, m) ==
    [rooms EXCEPT ![r].enq = Append(@, m), ![r].enqUser = Append(@, rooms[r].user)]

\* What the receive in publishMessages does with the text it got.
Enqueue(r, m) ==
    [rooms EXCEPT ![r].enq = Append(@, m), ![r].enqUser = Append(@, rooms[r].user),
                  ![r].outMsg = m, ![r].outpc = "publish"]

\* ui.OutgoingMessages <- msg meets case msg := <-c.OutgoingMessages; the
\* handler then echoes the text (display_selfmessage) and loops.
EvHandOff ==
    /\ ev.pc = "sendOut"
    /\ rooms[ev.outTarget].outpc = "select"
    /\ rooms' = Enqueue(ev.outTarget, ev.msg)
    /\ ev' = [ev EXCEPT !.pc = "enter", !.msg = 0, !.outTarget = 0]
    /\ UNCHANGED <<active, sw, nextMsg, fileVars, pubsubVars, cmdVars>>

\* case cmd := <-ui.CmdInputs: go ui.handlecommand(cmd), for '/r <arg>'; the
\* user issues at most limit such commands.
SpawnSwitch(arg, limit) ==
    /\ ev.pc = "select"
    /\ Len(sw) < limit
    /\ sw' = Append(sw, [pc |-> "start", arg |-> arg, old |-> 0, new |-> 0, logTarget |-> 0])
    /\ ev' = [ev EXCEPT !.pc = "enter"]
    /\ UNCHANGED <<rooms, active, nextMsg, fileVars, pubsubVars, cmdVars>>

EvRecvCmdR(arg) == SpawnSwitch(arg, MaxSwitches)

\* the same for a user who waits for every '/r' to run to its end (the title
\* of the message box changes, or "jumperr" is shown) before typing the next
EvRecvCmdRSeq(arg) ==
    /\ \A j \in SwIds : sw[j].pc \in {"done", "failed"}
    /\ SpawnSwitch(arg, MaxSwitches)

\* the same in the runs that mix texts with room switches
EvRecvCmdRChat(arg) == SpawnSwitch(arg, ChatSwitches)

\* case <-refreshticker.C: ui.syncpeerbox()
EvTick ==
    /\ ev.pc = "select"
    /\ ev' = [ev EXCEPT !.pc = "enter"]
    /\ UNCHANGED <<rooms, active, sw, nextMsg, fileVars, pubsubVars, cmdVars>>

\* case <-ui.roomCtx.Done(): return
EvObserveCancel ==
    /\ ev.pc = "select"
    /\ rooms[ev.sel].cancelled
    /\ ev' = [ev EXCEPT !.pc = "returned"]
    /\ UNCHANGED <<rooms, active, sw, nextMsg, fileVars, pubsubVars, cmdVars>>

\* case log := <-ui.LogChannel, meeting the log send of a handlecommand
\* goroutine ('/r': "roomchange" or "jumperr").
EvRecvLogSw(i) ==
    /\ ev.pc = "select"
    /\ sw[i].pc \in {"logsend", "errlog"}
    /\ sw[i].logTarget = ev.sel
    /\ sw' = [sw EXCEPT ![i].pc = IF sw[i].pc = "logsend" THEN "capture" ELSE "failed",
                        ![i].logTarget = 0]
    /\ ev' = [ev EXCEPT !.pc = "enter"]
    /\ UNCHANGED <<rooms, active, nextMsg, fileVars, pubsubVars, cmdVars>>

\* case log := <-ui.LogChannel, meeting the "Failed to publish message" send
\* of publishMessages of the room whose LogChannel the select holds.
EvRecvLogOut ==
    /\ ev.pc = "select"
    /\ rooms[ev.sel].outpc = "logerr"
    /\ rooms' = [rooms EXCEPT ![ev.sel].outpc = "select"]
    /\ ev' = [ev EXCEPT !.pc = "enter"]
    /\ UNCHANGED <<active, sw, nextMsg, fileVars, pubsubVars, cmdVars>>

\* case log := <-ui.LogChannel, meeting the "Subscription closed unexpectedly"
\* send of listenForMessages, which then returns.
EvRecvLogIn ==
    /\ ev.pc = "select"
    /\ rooms[ev.sel].inpc = "logclosed"
    /\ rooms' = [rooms EXCEPT ![ev.sel].inpc = "done"]
    /\ ev' = [ev EXCEPT !.pc = "enter"]
    /\ UNCHANGED <<active, sw, nextMsg, fileVars, pubsubVars, cmdVars>>

\* ------------------------------------------- UI.handlecommand, case "/r"
\* ui.LogChannel <- logEntry{"roomchange"}: the channel operand is read here.
SwStart(i) ==
    /\ sw[i].pc = "start"
    /\ sw' = [sw EXCEPT ![i].pc = "logsend", ![i].logTarget = active]
    /\ UNCHANGED <<rooms, active, ev, nextMsg, fileVars, pubsubVars, cmdVars>>

\* oldchatroom := ui.ChatRoom
SwCapture(i) ==
    /\ sw[i].pc = "capture"
    /\ sw' = [sw EXCEPT ![i].pc = "join", ![i].old = active]
    /\ UNCHANGED <<rooms, active, ev, nextMsg, fileVars, pubsubVars, cmdVars>>

\* newchatroom, err := JoinRoom(ui.NodeHost, ui.Username, cmd.cmdarg), err == nil
SwJoinOk(i) ==
    /\ sw[i].pc = "join"
    /\ rooms' = Append(rooms, NewRoom(rooms[active].user, sw[i].arg))
    /\ sw' = [sw EXCEPT ![i].pc = "assign", ![i].new = Len(rooms) + 1]
    /\ UNCHANGED <<active, ev, nextMsg, fileVars, pubsubVars, cmdVars>>

\* JoinRoom returned an error (topic join or subscribe failed): the goroutine
\* goes to send the "jumperr" log entry and returns.
SwJoinErr(i) ==
    /\ sw[i].pc = "join"
    /\ sw' = [sw EXCEPT ![i].pc = "errlog", ![i].logTarget = active]
    /\ UNCHANGED <<rooms, active, ev, nextMsg, fileVars, pubsubVars, cmdVars>>

\* (mutant of SwAssign: the captured old room is assigned back)
SwAssignOld(i) ==
    /\ sw[i].pc = "assign"
    /\ active' = sw[i].old
    /\ sw' = [sw EXCEPT ![i].pc = "sleep"]
    /\ UNCHANGED <<rooms, ev, nextMsg, fileVars, pubsubVars, cmdVars>>

\* ui.ChatRoom = newchatroom, followed by time.Sleep(time.Second)
SwAssign(i) ==
    /\ sw[i].pc = "assign"
    /\ active' = sw[i].new
    /\ sw' = [sw EXCEPT ![i].pc = "sleep"]
    /\ UNCHANGED <<rooms, ev, nextMsg, fileVars, pubsubVars, cmdVars>>

\* ChatRoom.Leave, its body: c.sub.Cancel(); c.topic.Close()
LeaveBody(r) ==
    [rooms EXCEPT ![r].leaveCalls = @ + 1,
                  ![r].subCancels = @ + 1,
                  ![r].topicCloses = @ + 1]

\* ChatRoom.Leave, its deferred c.cancelCtx() and the return
LeaveReturn(r) ==
    [rooms EXCEPT ![r].cancelled = TRUE, ![r].leaveReturns = @ + 1]

\* (mutant of SwLeave: ui.ChatRoom.Leave() in place of oldchatroom.Leave())
SwLeaveActive(i) ==
    /\ sw[i].pc = "sleep"
    /\ rooms' = LeaveBody(active)
    /\ sw' = [sw EXCEPT ![i].pc = "cancel"]
    /\ UNCHANGED <<active, ev, nextMsg, fileVars, pubsubVars, cmdVars>>

\* oldchatroom.Leave() is entered once the sleep is over
SwLeave(i) ==
    /\ sw[i].pc = "sleep"
    /\ rooms' = LeaveBody(sw[i].old)
    /\ sw' = [sw EXCEPT ![i].pc = "cancel"]
    /\ UNCHANGED <<active, ev, nextMsg, fileVars, pubsubVars, cmdVars>>

\* Leave returns; the goroutine clears the message box, sets its title and ends
SwLeaveReturn(i) ==
    /\ sw[i].pc = "cancel"
    /\ rooms' = LeaveReturn(sw[i].old)
    /\ sw' = [sw EXCEPT ![i].pc = "done"]
    /\ UNCHANGED <<active, ev, nextMsg, fileVars, pubsubVars, cmdVars>>

\* ------------------------------ UI.handlecommand, the other commands
\* case cmd := <-ui.CmdInputs: go ui.handlecommand(cmd), for a command other
\* than '/r <arg>'.
EvRecvCmd(type, arg) ==
    /\ ev.pc = "select"
    /\ Len(cmds) < MaxCmds
    /\ cmds' = Append(cmds, [type |-> type, arg |-> arg, pc |-> "start", logTarget |-> 0])
    /\ ev' = [ev EXCEPT !.pc = "enter"]
    /\ UNCHANGED <<rooms, active, sw, nextMsg, fileVars, pubsubVars, app, joins>>

\* '/u <name>'
EvRecvCmdU(name) == EvRecvCmd("/u", name)

\* case "/u" with an argument: ui.UpdateUsername(cmd.cmdarg), that is
\* c.Username = newName on the room ui.ChatRoom points to, then the label of
\* the input box is set.
CmdUpdateUsername(i) ==
    /\ cmds[i].pc = "start"
    /\ cmds[i].type = "/u"
    /\ cmds[i].arg # ""
    /\ rooms' = [rooms EXCEPT ![active].user = cmds[i].arg]
    /\ cmds' = [cmds EXCEPT ![i].pc = "done"]
    /\ UNCHANGED <<active, ev, sw, nextMsg, fileVars, pubsubVars, app, joins>>

\* The commands handlecommand answers with a "badcmd" log entry: '/r', '/u'
\* and '/send' without argument, and a command it does not know.
BadCmds == {<<"/r", "">>, <<"/u", "">>, <<"/send", "">>, <<"/x", "">>}

IsBadCmd(c) ==
    \/ c.type \in {"/r", "/u", "/send"} /\ c.arg = ""
    \/ c.type \notin {"/quit", "/r", "/u", "/send"}

EvRecvCmdBad(c) == EvRecvCmd(c[1], c[2])

\* ui.LogChannel <- logEntry{Prefix: "badcmd", ...}: the goroutine evaluates
\* ui.LogChannel, the channel of the room active right now, and starts to
\* send on it.
CmdBad(i) ==
    /\ cmds[i].pc = "start"
    /\ IsBadCmd(cmds[i])
    /\ cmds' = [cmds EXCEPT ![i].pc = "log", ![i].logTarget = active]
    /\ UNCHANGED <<uiVars, fileVars, pubsubVars, app, joins>>

\* case log := <-ui.LogChannel, meeting the log send of a handlecommand
\* goroutine that is not a room switch; the entry is displayed.
EvRecvLogCmd(i) ==
    /\ ev.pc = "select"
    /\ cmds[i].pc = "log"
    /\ cmds[i].logTarget = ev.sel
    /\ cmds' = [cmds EXCEPT ![i].pc = "done", ![i].logTarget = 0]
    /\ app' = [app EXCEPT !.logs = @ + 1]
    /\ ev' = [ev EXCEPT !.pc = "enter"]
    /\ UNCHANGED <<rooms, active, sw, nextMsg, fileVars, pubsubVars, joins>>

EvRecvCmdQuit == EvRecvCmd("/quit", "")

\* case "/quit": ui.TerminalApp.Stop(); return
CmdQuit(i) ==
    /\ cmds[i].pc = "start"
    /\ cmds[i].type = "/quit"
    /\ cmds' = [cmds EXCEPT ![i].pc = "done"]
    /\ app' = [app EXCEPT !.pc = IF @ = "running" THEN "stopped" ELSE @]
    /\ UNCHANGED <<uiVars, fileVars, pubsubVars, joins>>

\* UI.Run: TerminalApp.Run() returns once the application was stopped, and
\* the deferred ui.cancelCtx() runs. The function value was evaluated when
\* the defer statement executed, before any command: it is the cancel
\* function of the room NewUI was given, rooms[1]. Leave is not called.
RunReturn ==
    /\ app.pc = "stopped"
    /\ app' = [app EXCEPT !.pc = "exited"]
    /\ rooms' = [rooms EXCEPT ![1].cancelled = TRUE]
    /\ UNCHANGED <<active, ev, sw, nextMsg, fileVars, pubsubVars, cmds, joins>>

\* ----------------------------------------------------------------- JoinRoom
\* The arguments JoinRoom is called with: an empty or a given user name, an
\* empty or a given room name.
JoinUsers == {"", "carol"}
JoinRoomNames == {"", "b"}

\* (mutant of JoinRoom: the arguments are taken as given)
JoinRoomAsGiven(username, room, joinFails, subFails) ==
    IF joinFails \/ subFails
    THEN [err |-> IF joinFails THEN "join" ELSE "subscribe", chat |-> <<>>]
    ELSE [err |-> "", chat |-> <<[NewRoom(username, room) EXCEPT !.user = username, !.name = room]>>]

\* JoinRoom: the defaults, node.PubSub.Join, topic.Subscribe, the ChatRoom
\* and its two loops. The result is the error ("" for nil) and the room
\* returned (none with an error).
JoinRoom(username, room, joinFails, subFails) ==
    IF joinFails
    THEN [err |-> "join", chat |-> <<>>]
    ELSE IF subFails
    THEN [err |-> "subscribe", chat |-> <<>>]
    ELSE [err |-> "", chat |-> <<NewRoom(username, room)>>]

\* A call of JoinRoom, as main makes it, with its arguments and its result.
JoinRoomCall(username, room, joinFails, subFails) ==
    /\ Len(joins) < MaxJoins
    /\ LET res == JoinRoom(username, room, joinFails, subFails) IN
        /\ rooms' = rooms \o res.chat
        /\ joins' = Append(joins, [username |-> username, room |-> room,
                                   joinFails |-> joinFails, subFails |-> subFails,
                                   err |-> res.err,
                                   chat |-> IF res.chat = <<>> THEN 0 ELSE Len(rooms) + 1])
    /\ UNCHANGED <<active, ev, sw, nextMsg, fileVars, pubsubVars, cmds, app>>

\* --------------------------------------- operations on a room after Leave
\* A goroutine that holds room r, on which Leave has returned, starts
\* r.OutgoingMessages <- msg.
CallEnqueue(r) ==
    /\ rooms[r].leaveReturns > 0
    /\ Len(cmds) < MaxCmds
    /\ cmds' = Append(cmds, [type |-> "enqueue", arg |-> r, pc |-> "send", logTarget |-> 0])
    /\ UNCHANGED <<uiVars, fileVars, pubsubVars, app, joins>>

\* That send meets case msg := <-c.OutgoingMessages of the room's
\* publishMessages, if the loop still stands at its select.
CallHandOff(i) ==
    /\ cmds[i].type = "enqueue"
    /\ cmds[i].pc = "send"
    /\ rooms[cmds[i].arg].outpc = "select"
    /\ rooms' = Enqueue(cmds[i].arg, 201 + i)
    /\ cmds' = [cmds EXCEPT ![i].pc = "done"]
    /\ UNCHANGED <<active, ev, sw, nextMsg, fileVars, pubsubVars, app, joins>>

\* ------------------------------------------------------- chatMsg on the wire
\* The fields of chatMsg by their json names; those tagged omitempty.
Fields ==
    {"text", "sender_id", "sender_name", "msg_type",
     "file_name", "chunk_index", "total_chunks", "chunk_data"}
OmitEmpty == {"file_name", "chunk_index", "total_chunks", "chunk_data"}

\* A byte slice is a sequence of runs [src, lo, hi]: the bytes lo..hi-1 of the
\* file read by SendFile call src. The nil slice has no bytes.
Nil == <<>>

Zero(f) ==
    CASE f \in {"chunk_index", "total_chunks"} -> 0
      [] f = "chunk_data" -> Nil
      [] OTHER -> ""

\* json.Marshal(message): an omitempty field holding its zero value is left out.
Marshal(msg) ==
    [f \in {g \in Fields : ~(g \in OmitEmpty /\ msg[g] = Zero(g))} |-> msg[f]]

\* Bytes that are not the JSON of a chatMsg: the empty input.
Malformed == <<>>

\* json.Unmarshal(msg.Data, &parsedMsg) returns nil
Decodes(data) == data # Malformed

\* json.Unmarshal(msg.Data, &parsedMsg): a field the record lacks keeps its zero value.
Unmarshal(data) ==
    [f \in Fields |-> IF f \in DOMAIN data THEN data[f] ELSE Zero(f)]

\* ------------------------------------------------------------- the topics
\* The local node is the peer SenderID; the second peer is ReceiverID, and
\* everything other peers publish reaches the local node through it.

\* node.PubSub.Join(fmt.Sprintf("chatroom-%s", room))
TopicOf(room) == "chatroom-" \o room

\* (mutant of Subscribed: a subscription that takes the records of every topic)
SubscribedAny(r, t) == rooms[r].subCancels = 0

\* topic.Subscribe(): the subscription of room r takes the records published
\* on the room's topic; sub.Cancel() ends that.
Subscribed(r, t) == TopicOf(rooms[r].name) = t /\ rooms[r].subCancels = 0

\* The chatMsg publishMessages builds for a text: Text, SenderID and
\* SenderName are set, every other field keeps its zero value.
ChatText(id, user, m) ==
    [ text         |-> m,
      sender_id    |-> id,
      sender_name  |-> user,
      msg_type     |-> "",
      file_name    |-> "",
      chunk_index  |-> 0,
      total_chunks |-> 0,
      chunk_data   |-> Nil ]

\* a published record as sub.Next returns it: msg.ReceivedFrom and msg.Data,
\* and the topic it was published on
Envelope(room, id, msg) ==
    [ topic |-> TopicOf(room), from |-> id, data |-> Marshal(msg) ]

\* pubsub hands a published record to every subscription of its topic, the
\* publisher's own included.
Deliver(rs, rec) ==
    [r \in DOMAIN rs |->
        IF Subscribed(r, rec.topic) THEN [rs[r] EXCEPT !.subq = Append(@, rec)] ELSE rs[r]]

DeliverPeer(rec) ==
    IF rec.topic = TopicOf(PeerRoom) THEN [peer EXCEPT !.subq = Append(@, rec)] ELSE peer

\* the texts of other peers published so far
RemoteCount == Cardinality({k \in 1..Len(wire) : wire[k].from = ReceiverID})

\* The publishMessages loop of another peer, in room t, publishes a text.
RemotePublish(t) ==
    /\ RemoteCount < MaxRemote
    /\ LET rec == Envelope(t, ReceiverID, ChatText(ReceiverID, ReceiverName, 101 + RemoteCount))
       IN  /\ wire' = Append(wire, rec)
           /\ rooms' = Deliver(rooms, rec)
           /\ peer' = DeliverPeer(rec)
    /\ UNCHANGED <<active, ev, sw, nextMsg, fileVars, cmdVars>>

\* topic.Publish returned nil in publishMessages, with the record followed to
\* the subscriptions of its topic.
OutPublishWire(r) ==
    /\ rooms[r].outpc = "publish"
    /\ rooms[r].topicCloses = 0
    /\ LET rec == Envelope(rooms[r].name, SenderID,
                           ChatText(SenderID, rooms[r].user, rooms[r].outMsg))
       IN  /\ wire' = Append(wire, rec)
           /\ rooms' = Deliver(PublishAppend(r, TextMsg(r, rooms[r].outMsg)), rec)
           /\ peer' = DeliverPeer(rec)
    /\ UNCHANGED <<active, ev, sw, nextMsg, fileVars, cmdVars>>

\* topic.Publish on a topic that Leave has not closed returns nil.
OutPublishOpen(r) ==
    /\ rooms[r].topicCloses = 0
    /\ OutPublishOk(r)

\* topic.Publish on a topic that Leave has closed returns an error.
OutPublishClosed(r) ==
    /\ rooms[r].topicCloses > 0
    /\ OutPublishErr(r)

\* (mutant of InNextMsg: no message is skipped for coming from the local host)
InNextMsgAll(r) ==
    /\ rooms[r].inpc = "next"
    /\ rooms[r].subq # <<>>
    /\ LET m == Head(rooms[r].subq)
       IN  rooms' = [rooms EXCEPT ![r].subq = Tail(@),
                                  ![r].inpc = "deliver",
                                  ![r].inMsg = [topic |-> m.topic, msg |-> Unmarshal(m.data)]]
    /\ UNCHANGED <<active, ev, sw, nextMsg, fileVars, pubsubVars, cmdVars>>

\* msg, err := c.sub.Next(c.roomCtx) returns a message: one received from the
\* local host is skipped; any other is parsed and, its MsgType not being
\* "file", the loop goes to send it on c.IncomingMessages. (The "file" branch
\* is InRecvChunk.)
InNextMsg(r) ==
    /\ rooms[r].inpc = "next"
    /\ rooms[r].subq # <<>>
    /\ LET m == Head(rooms[r].subq)
           parsedMsg == Unmarshal(m.data)
       IN  /\ m.from = SenderID \/ Decodes(m.data)
           /\ parsedMsg.msg_type # "file"
           /\ rooms' = IF m.from = SenderID
                       THEN [rooms EXCEPT ![r].subq = Tail(@)]
                       ELSE [rooms EXCEPT ![r].subq = Tail(@),
                                          ![r].inpc = "deliver",
                                          ![r].inMsg = [topic |-> m.topic, msg |-> parsedMsg]]
    /\ UNCHANGED <<active, ev, sw, nextMsg, fileVars, pubsubVars, cmdVars>>

\* Another peer publishes, in room t, bytes that do not decode.
RemoteMalformed(t) ==
    /\ RemoteCount < MaxRemote
    /\ LET rec == [topic |-> TopicOf(t), from |-> ReceiverID, data |-> Malformed]
       IN  /\ wire' = Append(wire, rec)
           /\ rooms' = Deliver(rooms, rec)
           /\ peer' = DeliverPeer(rec)
    /\ UNCHANGED <<active, ev, sw, nextMsg, fileVars, cmdVars>>

\* (mutant of InNextBad: the error of json.Unmarshal is ignored)
InNextBadDeliver(r) ==
    /\ rooms[r].inpc = "next"
    /\ rooms[r].subq # <<>>
    /\ LET m == Head(rooms[r].subq)
       IN  /\ m.from # SenderID
           /\ ~Decodes(m.data)
           /\ rooms' = [rooms EXCEPT ![r].subq = Tail(@),
                                     ![r].inpc = "deliver",
                                     ![r].inMsg = [topic |-> m.topic, msg |-> Unmarshal(m.data)]]
    /\ UNCHANGED <<active, ev, sw, nextMsg, fileVars, pubsubVars, cmdVars>>

\* sub.Next returns a message of another peer and json.Unmarshal returns an
\* error: the loop goes to send "Failed to parse incoming message" on
\* c.LogChannel, and continues after that.
InNextBad(r) ==
    /\ rooms[r].inpc = "next"
    /\ rooms[r].subq # <<>>
    /\ LET m == Head(rooms[r].subq)
       IN  /\ m.from # SenderID
           /\ ~Decodes(m.data)
           /\ rooms' = [rooms EXCEPT ![r].subq = Tail(@), ![r].inpc = "parselog"]
    /\ UNCHANGED <<active, ev, sw, nextMsg, fileVars, pubsubVars, cmdVars>>

\* case log := <-ui.LogChannel, meeting the "Failed to parse incoming
\* message" send of listenForMessages; the entry is displayed and the loop
\* goes to its next pass.
EvRecvLogParse ==
    /\ ev.pc = "select"
    /\ rooms[ev.sel].inpc = "parselog"
    /\ rooms' = [rooms EXCEPT ![ev.sel].inpc = "next"]
    /\ app' = [app EXCEPT !.logs = @ + 1]
    /\ ev' = [ev EXCEPT !.pc = "enter"]
    /\ UNCHANGED <<active, sw, nextMsg, fileVars, pubsubVars, cmds, joins>>

\* case msg := <-ui.IncomingMessages meets c.IncomingMessages <- parsedMsg of
\* the room whose channel the select holds; display_chatmessage(msg).
EvRecvIncoming ==
    /\ ev.pc = "select"
    /\ rooms[ev.sel].inpc = "deliver"
    /\ rooms' = [rooms EXCEPT ![ev.sel].inq = Append(@, rooms[ev.sel].inMsg),
                              ![ev.sel].inMsg = <<>>,
                              ![ev.sel].inpc = "next"]
    /\ ev' = [ev EXCEPT !.pc = "enter"]
    /\ UNCHANGED <<active, sw, nextMsg, fileVars, pubsubVars, cmdVars>>

\* case msg := <-ui.IncomingMessages on a closed channel: the receive returns
\* the zero chatMsg at once, and display_chatmessage writes it to the
\* message box (zeroShown, until the loop comes round to its select again).
EvRecvClosed ==
    /\ ev.pc = "select"
    /\ rooms[ev.sel].incClosed
    /\ ev' = [ev EXCEPT !.pc = "enter", !.zeroShown = TRUE]
    /\ UNCHANGED <<rooms, active, sw, nextMsg, fileVars, pubsubVars, cmdVars>>

\* listenForMessages of the second peer, one pass: a message received from
\* itself is skipped, any other is parsed and handed to its dispatcher on
\* IncomingMessages.
PeerNext ==
    /\ peer.subq # <<>>
    /\ LET m == Head(peer.subq)
       IN  peer' = [peer EXCEPT !.subq = Tail(@),
                                !.inq = IF m.from = ReceiverID THEN @
                                        ELSE Append(@, Unmarshal(m.data))]
    /\ UNCHANGED <<uiVars, fileVars, wire, cmdVars>>

\* ------------------------------------------------------- ChatRoom.SendFile
\* the name of a file that is sent more than once
ResentName == "f"
\* its sizes: less than one chunk, one full chunk, two chunks and a rest
ResentSizes == {1808, ChunkSize, 2 * ChunkSize + 1808}

\* totalChunks = int(fileInfo.Size()/chunkSize) + 1
TotalChunks(size) == (size \div ChunkSize) + 1

\* (mutant of ReadLen: every read before the end fills the buffer)
ReadLenFull(size, off) == IF off >= size THEN 0 ELSE ChunkSize

\* n of file.Read(buf) at offset off of a file of that size
ReadLen(size, off) == IF size - off < ChunkSize THEN size - off ELSE ChunkSize

\* the chatMsg SendFile builds for the n bytes read at offset off
ChunkMsg(s, name, size, off, idx, n) ==
    [ text         |-> "",
      sender_id    |-> SenderID,
      sender_name  |-> SenderName,
      msg_type     |-> "file",
      file_name    |-> name,
      chunk_index  |-> idx,
      total_chunks |-> TotalChunks(size),
      chunk_data   |-> <<[src |-> s, lo |-> off, hi |-> off + n]>> ]

\* (mutant of ReadSeq: chunkIndex++ is left out)
RECURSIVE ReadSeqNoIncrement(_, _, _, _, _)
ReadSeqNoIncrement(s, name, size, off, idx) ==
    LET n == ReadLen(size, off)
    IN IF n = 0
       THEN <<>>
       ELSE <<[from |-> SenderID, data |-> Marshal(ChunkMsg(s, name, size, off, idx, n))]>>
            \o ReadSeqNoIncrement(s, name, size, off + n, idx)

\* The read loop of SendFile call s from offset off on: the records it
\* publishes, one per pass and in that order, until file.Read returns n == 0.
RECURSIVE ReadSeq(_, _, _, _, _)
ReadSeq(s, name, size, off, idx) ==
    LET n == ReadLen(size, off)
    IN IF n = 0
       THEN <<>>
       ELSE <<[from |-> SenderID, data |-> Marshal(ChunkMsg(s, name, size, off, idx, n))]>>
            \o ReadSeq(s, name, size, off + n, idx + 1)

\* the records the loop publishes, as a set
ReadLoop(s, name, size, off, idx) ==
    LET q == ReadSeq(s, name, size, off, idx)
    IN {q[k] : k \in 1..Len(q)}

\* SendFile(filePath) with os.Open, Stat, every Read and every Publish
\* succeeding: a file over the ceiling is refused with an error before anything
\* is published; otherwise totalChunks is computed, the "Sending file" log
\* entry is taken by the sender's UI, the loop publishes the chunks in index
\* order and SendFile returns nil.
SendFile(name, size) ==
    /\ Len(sends) < MaxSends
    /\ LET s == Len(sends) + 1
           out == ReadLoop(s, name, size, 0, 0)
       IN IF size > MaxFileSize
          THEN /\ sends' = Append(sends, [name |-> name, size |-> size, total |-> 0,
                                          emitted |-> 0, result |-> "toolarge"])
               /\ net' = net
          ELSE /\ sends' = Append(sends, [name |-> name, size |-> size,
                                          total |-> TotalChunks(size),
                                          emitted |-> Cardinality(out), result |-> "ok"])
               /\ net' = net \cup out
    /\ UNCHANGED <<uiVars, fileChunks, rcv, completed, pubsubVars, cmdVars>>

\* the passes of the read loop that publish a chunk
ChunkPasses(size) == (size + ChunkSize - 1) \div ChunkSize

\* the records the read loop publishes in its passes before pass `at`
PublishedBefore(s, name, size, at) ==
    {m \in ReadLoop(s, name, size, 0, 0) : Unmarshal(m.data).chunk_index < at}

\* a SendFile call that got past the size check and returned an error from
\* pass `at` of its read loop, the chunks of the earlier passes published
SendFileFailAt(name, size, at, err) ==
    /\ Len(sends) < MaxSends
    /\ size <= MaxFileSize
    /\ LET s == Len(sends) + 1
           out == PublishedBefore(s, name, size, at)
       IN  /\ sends' = Append(sends, [name |-> name, size |-> size,
                                      total |-> TotalChunks(size),
                                      emitted |-> Cardinality(out), result |-> err])
           /\ net' = net \cup out
    /\ UNCHANGED <<uiVars, fileChunks, rcv, completed, pubsubVars, cmdVars>>

\* SendFile(filePath), os.Open returns an error: "unable to open file".
SendFileOpenErr(name) ==
    /\ Len(sends) < MaxSends
    /\ sends' = Append(sends, [name |-> name, size |-> 0, total |-> 0,
                               emitted |-> 0, result |-> "openerr"])
    /\ UNCHANGED <<uiVars, net, fileChunks, rcv, completed, pubsubVars, cmdVars>>

\* SendFile(filePath), file.Read returns an error other than io.EOF in pass
\* `at` of the loop: "error reading file".
SendFileReadErr(name, size, at) ==
    /\ at \in 0..ChunkPasses(size)
    /\ SendFileFailAt(name, size, at, "readerr")

\* SendFile(filePath), c.topic.Publish returns an error in pass `at` of the
\* loop: "error publishing file chunk".
SendFilePublishErr(name, size, at) ==
    /\ at \in 0..(ChunkPasses(size) - 1)
    /\ SendFileFailAt(name, size, at, "puberr")

\* ------------------------------- listenForMessages, the "file" branch
\* key := parsedMsg.FileName + parsedMsg.SenderID
Key(p) == p.file_name \o p.sender_id

\* the slot array the chunk is written to: fileChunks[key], made with
\* TotalChunks nil slots when the key is new
SlotsFor(p) ==
    IF Key(p) \in DOMAIN fileChunks
    THEN fileChunks[Key(p)]
    ELSE [i \in 1..p.total_chunks |-> Nil]

\* whether fileChunks[key][parsedMsg.ChunkIndex] is inside the slot array
IndexInRange(p) == p.chunk_index >= 0 /\ p.chunk_index < Len(SlotsFor(p))

\* (mutant of ReceivedAll: only the first slot is looked at)
ReceivedFirst(slots) == slots = <<>> \/ slots[1] # Nil

\* for _, chunk := range fileChunks[key] { if chunk == nil { receivedAll = false } }
ReceivedAll(slots) == \A i \in 1..Len(slots) : slots[i] # Nil

\* (mutant of InRecvChunk: delete(fileChunks, key) is left out)
InRecvChunkKeep(m) ==
    /\ rcv.pc = "next"
    /\ m \in net
    /\ m.from # ReceiverID
    /\ LET p == Unmarshal(m.data)
           slots == [SlotsFor(p) EXCEPT ![p.chunk_index + 1] = p.chunk_data]
       IN /\ p.msg_type = "file"
          /\ IndexInRange(p)
          /\ completed' = IF ReceivedAll(slots)
                          THEN Append(completed, [name |-> p.file_name, chunks |-> slots])
                          ELSE completed
          /\ fileChunks' = [k \in DOMAIN fileChunks \cup {Key(p)} |->
                              IF k = Key(p) THEN slots ELSE fileChunks[k]]
          /\ rcv' = [rcv EXCEPT !.order = Append(@, <<p.file_name, p.chunk_index>>)]
    /\ net' = net \ {m}
    /\ UNCHANGED <<uiVars, sends, pubsubVars, cmdVars>>

\* sub.Next hands out a chunk record of another peer whose index is inside the
\* slot array: the slot is written, and a full array is handed to
\* assembleAndSaveFile and its key deleted.
InRecvChunk(m) ==
    /\ rcv.pc = "next"
    /\ m \in net
    /\ m.from # ReceiverID
    /\ LET p == Unmarshal(m.data)
           slots == [SlotsFor(p) EXCEPT ![p.chunk_index + 1] = p.chunk_data]
       IN /\ p.msg_type = "file"
          /\ IndexInRange(p)
          /\ IF ReceivedAll(slots)
             THEN /\ completed' = Append(completed, [name |-> p.file_name, chunks |-> slots])
                  /\ fileChunks' = [k \in DOMAIN fileChunks \ {Key(p)} |-> fileChunks[k]]
             ELSE /\ completed' = completed
                  /\ fileChunks' = [k \in DOMAIN fileChunks \cup {Key(p)} |->
                                      IF k = Key(p) THEN slots ELSE fileChunks[k]]
          /\ rcv' = [rcv EXCEPT !.order = Append(@, <<p.file_name, p.chunk_index>>)]
    /\ net' = net \ {m}
    /\ UNCHANGED <<uiVars, sends, pubsubVars, cmdVars>>

\* The same with the index outside the slot array: the indexed assignment
\* panics (index out of range) and the panic ends the process.
InRecvChunkPanic(m) ==
    /\ rcv.pc = "next"
    /\ m \in net
    /\ m.from # ReceiverID
    /\ LET p == Unmarshal(m.data)
       IN /\ p.msg_type = "file"
          /\ ~IndexInRange(p)
          /\ fileChunks' = [k \in DOMAIN fileChunks \cup {Key(p)} |->
                              IF k = Key(p) THEN SlotsFor(p) ELSE fileChunks[k]]
          /\ rcv' = [rcv EXCEPT !.pc = "panic",
                                !.order = Append(@, <<p.file_name, p.chunk_index>>)]
    /\ net' = net \ {m}
    /\ UNCHANGED <<uiVars, sends, completed, pubsubVars, cmdVars>>

\* ------------------------------------------- chunk records of other peers
\* File names and sender IDs a chunk record can carry. SenderID is a field of
\* the record, filled in by whoever published it; two of the four pairs give
\* the same FileName + SenderID.
ChunkNames == {"f", "fQ"}
ChunkSenders == {"QmAlice", "mAlice"}
\* the peer the records are received from
RemotePeer == "QmCarol"

\* A peer publishes on the topic one chunk record of the transfer
\* (name, sid): index idx of total chunks, its bytes those of that transfer.
RemoteChunk(name, sid, idx, total) ==
    /\ Cardinality(net) + Len(rcv.order) < MaxChunks
    /\ net' = net \cup
          {[from |-> RemotePeer,
            data |-> Marshal([ text         |-> "",
                               sender_id    |-> sid,
                               sender_name  |-> SenderName,
                               msg_type     |-> "file",
                               file_name    |-> name,
                               chunk_index  |-> idx,
                               total_chunks |-> total,
                               chunk_data   |-> <<[src |-> <<name, sid>>,
                                                   lo |-> idx * ChunkSize,
                                                   hi |-> (idx + 1) * ChunkSize]>> ])]}
    /\ net' # net
    /\ UNCHANGED <<uiVars, sends, fileChunks, rcv, completed, pubsubVars, cmdVars>>

\* --------------------------- the "file" branch in a room's inbound loop
\* The second peer publishes, in room t, chunk idx of a file of two chunks.
RemoteFileChunk(t, name, idx) ==
    /\ RemoteCount < MaxRemote
    /\ LET rec == Envelope(t, ReceiverID,
                           [ text         |-> "",
                             sender_id    |-> ReceiverID,
                             sender_name  |-> ReceiverName,
                             msg_type     |-> "file",
                             file_name    |-> name,
                             chunk_index  |-> idx,
                             total_chunks |-> 2,
                             chunk_data   |-> <<[src |-> <<name, ReceiverID>>,
                                                 lo |-> idx * ChunkSize,
                                                 hi |-> (idx + 1) * ChunkSize]>> ])
       IN  /\ wire' = Append(wire, rec)
           /\ rooms' = Deliver(rooms, rec)
           /\ peer' = DeliverPeer(rec)
    /\ UNCHANGED <<active, ev, sw, nextMsg, fileVars, cmdVars>>

\* (mutant of InNextChunk: the MsgType is not looked at, the record goes to
\* c.IncomingMessages)
InNextChunkToQueue(r) ==
    /\ rooms[r].inpc = "next"
    /\ rooms[r].subq # <<>>
    /\ LET m == Head(rooms[r].subq)
           p == Unmarshal(m.data)
       IN  /\ m.from # SenderID
           /\ Decodes(m.data)
           /\ p.msg_type = "file"
           /\ rooms' = [rooms EXCEPT ![r].subq = Tail(@),
                                     ![r].inpc = "deliver",
                                     ![r].inMsg = [topic |-> m.topic, msg |-> p]]
    /\ UNCHANGED <<active, ev, sw, nextMsg, fileVars, pubsubVars, cmdVars>>

\* sub.Next of room r returns a record of another peer that decodes with
\* MsgType "file" and an index inside the slot array: the slot is written, a
\* full array is handed to assembleAndSaveFile and its key deleted, and the
\* loop goes to its next pass. (With the index outside the array the
\* assignment panics, InRecvChunkPanic.)
InNextChunk(r) ==
    /\ rooms[r].inpc = "next"
    /\ rooms[r].subq # <<>>
    /\ LET m == Head(rooms[r].subq)
           p == Unmarshal(m.data)
           slots == [SlotsFor(p) EXCEPT ![p.chunk_index + 1] = p.chunk_data]
       IN  /\ m.from # SenderID
           /\ Decodes(m.data)
           /\ p.msg_type = "file"
           /\ IndexInRange(p)
           /\ rooms' = [rooms EXCEPT ![r].subq = Tail(@)]
           /\ IF ReceivedAll(slots)
              THEN /\ completed' = Append(completed, [name |-> p.file_name, chunks |-> slots])
                   /\ fileChunks' = [k \in DOMAIN fileChunks \ {Key(p)} |-> fileChunks[k]]
              ELSE /\ completed' = completed
                   /\ fileChunks' = [k \in DOMAIN fileChunks \cup {Key(p)} |->
                                       IF k = Key(p) THEN slots ELSE fileChunks[k]]
    /\ UNCHANGED <<active, ev, sw, nextMsg, sends, net, rcv, pubsubVars, cmdVars>>

\* ---------------------------------------------------- assembleAndSaveFile
\* for _, chunk := range chunks { file.Write(chunk) }: the bytes of the file
\* written, adjoining runs of one source file joined into one run.
RECURSIVE Flatten(_)
Flatten(chunks) ==
    IF chunks = <<>> THEN <<>> ELSE Head(chunks) \o Flatten(Tail(chunks))

RECURSIVE JoinRuns(_)
JoinRuns(runs) ==
    IF Len(runs) <= 1
    THEN runs
    ELSE IF runs[1].src = runs[2].src /\ runs[1].hi = runs[2].lo
         THEN JoinRuns(<<[runs[1] EXCEPT !.hi = runs[2].hi]>> \o SubSeq(runs, 3, Len(runs)))
         ELSE <<runs[1]>> \o JoinRuns(Tail(runs))

WrittenBytes(chunks) == JoinRuns(Flatten(chunks))

\* the bytes of the file SendFile call s read
FileBytes(s) ==
    IF sends[s].size = 0 THEN <<>> ELSE <<[src |-> s, lo |-> 0, hi |-> sends[s].size]>>

\* ---------------------------------------------------------- specifications
\* main: JoinRoom(node, *username, "lobby") succeeded, NewUI, ui.Run started
\* the event handler. On the file side one peer is about to send and another
\* peer's listenForMessages is blocked in sub.Next with an empty fileChunks map.
Init ==
    /\ rooms = <<NewRoom("alice", "lobby")>>
    /\ active = 1
    /\ ev = [pc |-> "enter", sel |-> 0, msg |-> 0, outTarget |-> 0,
             zeroShown |-> FALSE]
    /\ sw = <<>>
    /\ nextMsg = 1
    /\ sends = <<>>
    /\ net = {}
    /\ fileChunks = <<>>
    /\ rcv = [pc |-> "next", logs |-> 0, order |-> <<>>]
    /\ completed = <<>>
    /\ wire = <<>>
    /\ peer = [subq |-> <<>>, inq |-> <<>>]
    /\ cmds = <<>>
    /\ app = [pc |-> "running", logs |-> 0]
    /\ joins = <<>>

\* the steps of room switching shared by the specifications
SwitchSteps ==
    \/ \E r \in RoomIds : OutObserveCancel(r)
    \/ \E r \in RoomIds : InNextErr(r)
    \/ EvEnterSelect
    \/ EvTick
    \/ EvObserveCancel
    \/ \E i \in SwIds : EvRecvLogSw(i)
    \/ EvRecvLogIn
    \/ \E i \in SwIds : SwStart(i)
    \/ \E i \in SwIds : SwCapture(i)
    \/ \E i \in SwIds : SwJoinOk(i)
    \/ \E i \in SwIds : SwJoinErr(i)
    \/ \E i \in SwIds : SwAssign(i)
    \/ \E i \in SwIds : SwLeave(i)
    \/ \E i \in SwIds : SwLeaveReturn(i)

\* Room switching: the user issues '/r' commands.
Next ==
    \/ SwitchSteps
    \/ \E a \in RoomArgs : EvRecvCmdR(a)

Spec == Init /\ [][Next]_vars

\* rooms one run of room switching can hold: the lobby and one per '/r'
MaxRooms == MaxSwitches + 1

\* Room switching under the scheduling the runtime gives. A goroutine that can
\* take a step that needs no partner takes it (weak fairness on the steps of
\* the loops, of the handlecommand goroutines and on the dispatcher entering
\* its select); the ticker fires every second; a select whose case is ready
\* again and again takes it, since a ready case is chosen at random (strong
\* fairness on the dispatcher's receives). The user need not type anything.
Fairness ==
    /\ \A r \in 1..MaxRooms :
           /\ WF_vars(r \in RoomIds /\ OutObserveCancel(r))
           /\ WF_vars(r \in RoomIds /\ InNextErr(r))
    /\ \A i \in 1..MaxSwitches :
           /\ WF_vars(i \in SwIds /\ SwStart(i))
           /\ WF_vars(i \in SwIds /\ SwCapture(i))
           /\ WF_vars(i \in SwIds /\ (SwJoinOk(i) \/ SwJoinErr(i)))
           /\ WF_vars(i \in SwIds /\ SwAssign(i))
           /\ WF_vars(i \in SwIds /\ SwLeave(i))
           /\ WF_vars(i \in SwIds /\ SwLeaveReturn(i))
           /\ SF_vars(i \in SwIds /\ EvRecvLogSw(i))
    /\ WF_vars(EvEnterSelect)
    /\ WF_vars(EvTick)
    /\ SF_vars(EvRecvLogIn)

SpecFair == Spec /\ Fairness

\* Room switching, one '/r' at a time.
NextSeq ==
    \/ SwitchSteps
    \/ \E a \in RoomArgs : EvRecvCmdRSeq(a)

SpecSeq == Init /\ [][NextSeq]_vars

\* '/r' in the runs with texts of other peers, one '/r' at a time
EvRecvCmdRIn(arg) ==
    /\ \A j \in SwIds : sw[j].pc \in {"done", "failed"}
    /\ SpawnSwitch(arg, InSwitches)

\* A room switch while other peers publish texts in the rooms.
NextInbound ==
    \/ SwitchSteps
    \/ \E a \in RoomArgs : EvRecvCmdRIn(a)
    \/ \E t \in RemoteRooms : RemotePublish(t)
    \/ \E r \in RoomIds : InNextMsg(r)
    \/ EvRecvIncoming
    \/ EvRecvClosed
    \/ PeerNext

SpecInbound == Init /\ [][NextInbound]_vars

\* '/r' in the runs with a working transport, one '/r' at a time
EvRecvCmdRSend(arg) ==
    /\ \A j \in SwIds : sw[j].pc \in {"done", "failed"}
    /\ SpawnSwitch(arg, ChatSwitches)

\* Chatting over a working transport: Publish fails only on a closed topic.
NextSend ==
    \/ SwitchSteps
    \/ \E a \in RoomArgs : EvRecvCmdRSend(a)
    \/ EvRecvMsg
    \/ EvHandOff
    \/ \E r \in RoomIds : OutPublishOpen(r)
    \/ \E r \in RoomIds : OutPublishClosed(r)
    \/ EvRecvLogOut

\* The scheduling this needs of the runtime and the transport: a hand-over
\* on OutgoingMessages that both sides stand at happens, and a Publish call
\* returns. (A publishMessages goroutine inside Publish stays there until the
\* call returns, so fairness to the calls together is fairness to each.)
FairnessSend ==
    /\ WF_vars(EvHandOff)
    /\ WF_vars(\E r \in RoomIds : OutPublishOpen(r) \/ OutPublishClosed(r))

SpecSend == Init /\ [][NextSend]_vars /\ FairnessSend

\* Two peers chatting in the lobby: the user types texts, the second peer
\* publishes texts and runs its inbound loop.
NextPeers ==
    \/ EvEnterSelect
    \/ EvTick
    \/ EvRecvMsg
    \/ EvHandOff
    \/ \E r \in RoomIds : OutPublishWire(r)
    \/ \E r \in RoomIds : OutPublishErr(r)
    \/ EvRecvLogOut
    \/ RemotePublish(PeerRoom)
    \/ \E r \in RoomIds : InNextMsg(r)
    \/ EvRecvIncoming
    \/ PeerNext

SpecPeers == Init /\ [][NextPeers]_vars

\* Chatting and renaming: the user types texts and '/u' commands.
NextUser ==
    \/ EvEnterSelect
    \/ EvTick
    \/ EvRecvMsg
    \/ EvHandOff
    \/ \E r \in RoomIds : OutPublishOk(r)
    \/ \E name \in UserArgs : EvRecvCmdU(name)
    \/ \E i \in CmdIds : CmdUpdateUsername(i)

SpecUser == Init /\ [][NextUser]_vars

\* Room switching, one '/r' at a time, with goroutines that go on using a
\* room after Leave has returned on it.
NextAfterLeave ==
    \/ SwitchSteps
    \/ \E a \in RoomArgs : EvRecvCmdRSeq(a)
    \/ \E r \in RoomIds : CallEnqueue(r)
    \/ \E i \in CmdIds : CallHandOff(i)

SpecAfterLeave == Init /\ [][NextAfterLeave]_vars

\* One room switch at a time, and commands that are answered with "badcmd".
NextBadCmd ==
    \/ SwitchSteps
    \/ \E a \in RoomArgs : EvRecvCmdRIn(a)
    \/ \E c \in BadCmds : EvRecvCmdBad(c)
    \/ \E i \in CmdIds : CmdBad(i) \/ EvRecvLogCmd(i)

SpecBadCmd == Init /\ [][NextBadCmd]_vars

\* One room switch at a time, and '/quit'.
NextQuit ==
    \/ SwitchSteps
    \/ \E a \in RoomArgs : EvRecvCmdRIn(a)
    \/ EvRecvCmdQuit
    \/ \E i \in CmdIds : CmdQuit(i)
    \/ RunReturn

SpecQuit == Init /\ [][NextQuit]_vars

\* Calls of JoinRoom with every combination of arguments and failures.
NextJoin ==
    \E u \in JoinUsers, n \in JoinRoomNames, jf \in BOOLEAN, sf \in BOOLEAN :
        JoinRoomCall(u, n, jf, sf)

SpecJoin == Init /\ [][NextJoin]_vars

\* File transfer of one file name: the sender sends the file again and again,
\* with any size, and every transfer has the same key at the receiver.
NextResend ==
    \/ \E size \in ResentSizes : SendFile(ResentName, size)
    \/ \E m \in net : InRecvChunk(m)
    \/ \E m \in net : InRecvChunkPanic(m)

SpecResend == Init /\ [][NextResend]_vars

\* Chunk records of several transfers, of one or two chunks each, reach the
\* receiving peer in any order.
NextKeys ==
    \/ \E name \in ChunkNames, sid \in ChunkSenders, idx \in {0, 1}, total \in {1, 2} :
          RemoteChunk(name, sid, idx, total)
    \/ \E m \in net : InRecvChunk(m)
    \/ \E m \in net : InRecvChunkPanic(m)

SpecKeys == Init /\ [][NextKeys]_vars

\* Chatting in the lobby over a working transport while another peer
\* publishes texts and bytes that do not decode.
NextDecode ==
    \/ EvEnterSelect
    \/ EvTick
    \/ EvRecvMsg
    \/ EvHandOff
    \/ \E r \in RoomIds : OutPublishOpen(r)
    \/ RemotePublish(PeerRoom)
    \/ RemoteMalformed(PeerRoom)
    \/ \E r \in RoomIds : InNextMsg(r)
    \/ \E r \in RoomIds : InNextBad(r)
    \/ EvRecvIncoming
    \/ EvRecvLogParse

\* The goroutines run on: the dispatcher reaches its select, a select whose
\* log or message case is ready again and again takes it (a ready case is
\* chosen at random), the inbound loop takes what sub.Next returns, the
\* outbound loop takes the text offered to it and Publish returns.
FairnessDecode ==
    /\ WF_vars(EvEnterSelect)
    /\ SF_vars(EvRecvLogParse)
    /\ SF_vars(EvRecvIncoming)
    /\ WF_vars(\E r \in RoomIds : InNextMsg(r) \/ InNextBad(r))
    /\ WF_vars(EvHandOff)
    /\ WF_vars(\E r \in RoomIds : OutPublishOpen(r))

SpecDecode == Init /\ [][NextDecode]_vars /\ FairnessDecode

\* The second peer publishes texts and file chunks in the lobby, in any
\* order; the local room's inbound loop and the dispatcher take them.
NextRoute ==
    \/ EvEnterSelect
    \/ EvTick
    \/ RemotePublish(PeerRoom)
    \/ \E name \in FileNames, idx \in {0, 1} : RemoteFileChunk(PeerRoom, name, idx)
    \/ \E r \in RoomIds : InNextMsg(r)
    \/ \E r \in RoomIds : InNextChunk(r)
    \/ EvRecvIncoming

SpecRoute == Init /\ [][NextRoute]_vars

\* Chatting in the lobby and '/quit'.
NextQuitChat ==
    \/ EvEnterSelect
    \/ EvTick
    \/ EvObserveCancel
    \/ EvRecvMsg
    \/ EvHandOff
    \/ \E r \in RoomIds : OutPublishOk(r)
    \/ \E r \in RoomIds : OutObserveCancel(r)
    \/ EvRecvCmdQuit
    \/ \E i \in CmdIds : CmdQuit(i)
    \/ RunReturn

SpecQuitChat == Init /\ [][NextQuitChat]_vars

\* Chatting: the user types texts and switches rooms.
NextChat ==
    \/ SwitchSteps
    \/ \E a \in RoomArgs : EvRecvCmdRChat(a)
    \/ EvRecvMsg
    \/ EvHandOff
    \/ \E r \in RoomIds : OutPublishOk(r)
    \/ \E r \in RoomIds : OutPublishErr(r)
    \/ EvRecvLogOut

SpecChat == Init /\ [][NextChat]_vars

\* File transfer: one peer calls SendFile, another peer's inbound loop gets
\* the chunks in whatever order the transport hands them out. The sender and
\* the receiver are different processes that share only the topic, so a
\* SendFile call is one step.
NextFile ==
    \/ \E name \in FileNames, size \in FileSizes : SendFile(name, size)
    \/ \E m \in net : InRecvChunk(m)
    \/ \E m \in net : InRecvChunkPanic(m)

SpecFile == Init /\ [][NextFile]_vars

\* SendFile calls with every way they end: nil, or an error from os.Open,
\* the size check, file.Read or topic.Publish.
NextFileErr ==
    \/ \E name \in FileNames, size \in FileSizes : SendFile(name, size)
    \/ \E name \in FileNames : SendFileOpenErr(name)
    \/ \E name \in FileNames, size \in FileSizes, at \in 0..ChunkPasses(MaxFileSize) :
          SendFileReadErr(name, size, at)
    \/ \E name \in FileNames, size \in FileSizes, at \in 0..ChunkPasses(MaxFileSize) :
          SendFilePublishErr(name, size, at)

SpecFileErr == Init /\ [][NextFileErr]_vars

\* ------------------------------------------------------------------ claims
\* the texts of a sequence of published records
Texts(pub) == [k \in 1..Len(pub) |-> pub[k].text]

\* C1: the texts a room's outbound loop has published are the texts handed to
\* that room's outbound queue, in the order they were handed over, each at most
\* once; only a text whose Publish failed, or the one being published, is absent.
C1_OutboundFifo ==
    \A r \in RoomIds :
        /\ Texts(rooms[r].pub) =
              SelectSeq(rooms[r].enq,
                        LAMBDA m : m \notin rooms[r].dropped /\ m # rooms[r].outMsg)
        /\ \A k \in 1..(Len(rooms[r].enq) - 1) : rooms[r].enq[k] < rooms[r].enq[k + 1]

\* C1 witness: one room has published two texts.
C1_Witness == \E r \in RoomIds : Len(rooms[r].pub) >= 2

\* C2: once every chunk a successful SendFile of a non-empty file emitted has
\* been handed to the receiver (no other transfer uses the file's name), the
\* receiver has assembled exactly one file of that name, with the file's bytes.
C2_AnyOrderReassembly ==
    \A s \in 1..Len(sends) :
        ( /\ sends[s].result = "ok"
          /\ sends[s].size > 0
          /\ \A t \in 1..Len(sends) : t # s => sends[t].name # sends[s].name
          /\ \A m \in net : m.data["file_name"] # sends[s].name )
        => /\ Cardinality({k \in 1..Len(completed) : completed[k].name = sends[s].name}) = 1
           /\ \A k \in 1..Len(completed) :
                 completed[k].name = sends[s].name
                 => WrittenBytes(completed[k].chunks) = FileBytes(s)

\* C3: a successful SendFile of a file whose size is a positive multiple of the
\* chunk size has emitted size/chunkSize chunks and stamped totalChunks =
\* size/chunkSize.
C3_ExactMultipleChunkCount ==
    \A s \in 1..Len(sends) :
        ( /\ sends[s].result = "ok"
          /\ sends[s].size > 0
          /\ sends[s].size % ChunkSize = 0 )
        => /\ sends[s].emitted = sends[s].size \div ChunkSize
           /\ sends[s].total = sends[s].size \div ChunkSize

\* C4: a step in which the inbound loop takes a chunk whose index is outside
\* the slot array of its key leaves the loop running, adds an error log entry
\* and completes no file.
C4_OutOfRangeChunkDropped ==
    [][\A m \in net :
          (net' = net \ {m} /\ ~IndexInRange(Unmarshal(m.data)))
          => /\ rcv'.pc = "next"
             /\ rcv'.logs = rcv.logs + 1
             /\ completed' = completed]_vars

\* C5: the active room reference is always a room JoinRoom returned on which
\* Leave has not been called: its subscription is not cancelled and its topic
\* is not closed.
C5_ActiveRoomLive ==
    /\ active \in RoomIds
    /\ rooms[active].leaveCalls = 0
    /\ rooms[active].subCancels = 0
    /\ rooms[active].topicCloses = 0

\* C5 witness: the middle of a switch: the new room is active and Leave of the
\* old room has run its body and not yet returned.
C5_Witness ==
    \E i \in SwIds :
        /\ sw[i].pc = "cancel"
        /\ active = sw[i].new
        /\ rooms[sw[i].old].leaveCalls = 1

\* a switch between the return of its JoinRoom and the return of its Leave
InFlight(i) == sw[i].pc \in {"assign", "sleep", "cancel"}

\* C6: while one switch is in flight no other '/r' goroutine takes a step.
C6_OneSwitchInFlight ==
    [][\A i, j \in SwIds : (i # j /\ InFlight(i)) => sw'[j] = sw[j]]_vars

\* no two rooms joined so far have the same name
DistinctRoomNames ==
    \A r, q \in RoomIds : r # q => rooms[r].name # rooms[q].name

\* every '/r' issued has run to its end
AllSwitchesEnded ==
    /\ Len(sw) > 0
    /\ \A i \in SwIds : sw[i].pc \in {"done", "failed"}

\* C7: once every '/r' has run to its end, each room JoinRoom returned is the
\* active room or has had Leave called on it (stated for switches to rooms of
\* different names).
C7_NoLeakedRoom ==
    (AllSwitchesEnded /\ DistinctRoomNames)
    => \A r \in RoomIds : r = active \/ rooms[r].leaveCalls > 0

\* C8: Leave is called at most once on each room (stated for switches to rooms
\* of different names).
C8_LeaveAtMostOnce ==
    DistinctRoomNames => \A r \in RoomIds : rooms[r].leaveCalls <= 1

\* C9: a room on which Leave was called twice has had its topic closed and its
\* subscription cancelled at most once.
C9_LeaveIdempotent ==
    \A r \in RoomIds :
        (rooms[r].leaveCalls >= 2 /\ DistinctRoomNames)
        => rooms[r].topicCloses <= 1 /\ rooms[r].subCancels <= 1

\* C10: when Leave has returned, both loops of the room have stopped.
C10_LeaveWaitsForLoops ==
    \A r \in RoomIds :
        rooms[r].leaveReturns > 0
        => rooms[r].inpc = "done" /\ rooms[r].outpc = "done"

\* C11: once a room's context is cancelled, its inbound loop and its outbound
\* loop both come to their end (checked under the fair scheduling of SpecFair).
C11_LoopsTerminate ==
    \A r \in 1..MaxRooms :
        (r \in RoomIds /\ rooms[r].cancelled)
        ~> (r \in RoomIds /\ rooms[r].inpc = "done" /\ rooms[r].outpc = "done")

\* C12: when '/r' commands run one at a time, a switch to room B that has
\* completed leaves the active room reference on a ChatRoom named B, until a
\* later switch joins its room.
C12_ActiveIsTarget ==
    \A i \in SwIds :
        ( /\ sw[i].pc = "done"
          /\ \A j \in SwIds : j > i => sw[j].pc \notin {"assign", "sleep", "cancel", "done"} )
        => /\ active = sw[i].new
           /\ rooms[active].name = sw[i].arg

\* C12 witness: two switches to different rooms have completed, one after the
\* other.
C12_Witness ==
    /\ Len(sw) = 2
    /\ sw[1].pc = "done" /\ sw[2].pc = "done"
    /\ sw[1].arg # sw[2].arg

\* C13: every message a ChatRoom's inbound loop holds for, or has handed over
\* on, its IncomingMessages was published on the topic of that room.
C13_NoCrossRoomDelivery ==
    \A r \in RoomIds :
        /\ \A k \in 1..Len(rooms[r].inq) : rooms[r].inq[k].topic = TopicOf(rooms[r].name)
        /\ rooms[r].inMsg # <<>> => rooms[r].inMsg.topic = TopicOf(rooms[r].name)

\* C13 witness: during a switch, with both rooms subscribed, one text was
\* published on the new room's topic and then one on the old room's, and each
\* room has handed over one message.
C13_Witness ==
    /\ Len(rooms) = 2
    /\ Len(wire) = 2
    /\ wire[1].topic = TopicOf(rooms[2].name)
    /\ wire[2].topic = TopicOf(rooms[1].name)
    /\ Len(rooms[1].inq) = 1
    /\ Len(rooms[2].inq) = 1

\* a switch has made room b the active room and has not returned from Leave
\* of the old room
MidSwitchTo(b) ==
    \E i \in SwIds : sw[i].new = b /\ sw[i].pc \in {"sleep", "cancel"}

\* C14: a text the dispatcher sends to room B, the active room, while the
\* switch to B has not yet returned from Leave of the old room, is taken by
\* B's outbound loop and published on B, unless a later switch has left B by
\* then (over a transport whose Publish fails only on a closed topic, under
\* the fair scheduling of SpecSend).
C14_SendDuringSwitch ==
    \A b \in 2..(ChatSwitches + 1) : \A m \in 1..MaxMsgs :
        (ev.pc = "sendOut" /\ ev.msg = m /\ ev.outTarget = b /\ active = b /\ MidSwitchTo(b))
        ~> /\ b \in RoomIds
           /\ \/ \E k \in 1..Len(rooms[b].pub) : rooms[b].pub[k].text = m
              \/ rooms[b].leaveCalls > 0

\* C14 witness: the text sent during the switch was published on B while
\* Leave of the old room had still not returned.
C14_Witness ==
    \E b \in RoomIds :
        /\ MidSwitchTo(b)
        /\ Len(rooms[b].pub) > 0
        /\ rooms[b].enq = <<1>>

\* C15: the steps of a '/r' whose JoinRoom failed (the failure, the hand-over
\* of its "jumperr" log entry) change neither the active room reference nor
\* any room, and the log entry it goes to send is received by the dispatcher
\* (checked under the fair scheduling of SpecFair).
C15_JoinFailureSurfaced ==
    /\ [][\A i \in SwIds :
             (sw'[i] # sw[i] /\ sw'[i].pc \in {"errlog", "failed"})
             => (active' = active /\ rooms' = rooms)]_vars
    /\ \A i \in 1..MaxSwitches :
           (i \in SwIds /\ sw[i].pc = "errlog") ~> (i \in SwIds /\ sw[i].pc = "failed")

\* C16: no message a local room's inbound loop holds for, or has handed over
\* on, IncomingMessages comes from the local peer; and the messages the second
\* peer's inbound loop has put on its IncomingMessages are, in order, the
\* texts the local peer published in their room, each with the text as typed
\* and the local user's name.
C16_NoSelfDelivery ==
    /\ \A r \in RoomIds :
          /\ \A k \in 1..Len(rooms[r].inq) : rooms[r].inq[k].msg.sender_id # SenderID
          /\ rooms[r].inMsg # <<>> => rooms[r].inMsg.msg.sender_id # SenderID
    /\ Len(peer.inq) <= Len(rooms[active].pub)
    /\ \A k \in 1..Len(peer.inq) :
          /\ peer.inq[k].text = rooms[active].pub[k].text
          /\ peer.inq[k].text \in 1..MaxMsgs
          /\ peer.inq[k].sender_name = rooms[active].user

\* C16 witness: the local peer has published two texts, its own inbound loop
\* has gone through everything its subscription got and handed over a text
\* of the second peer, and the second peer has put both local texts on its
\* inbound queue.
C16_Witness ==
    /\ Len(rooms[active].pub) = 2
    /\ rooms[active].subq = <<>>
    /\ Len(rooms[active].inq) >= 1
    /\ Len(peer.inq) = 2

\* C17: every record published by an outbound loop carries msg_type "text"
\* and every record published by SendFile carries msg_type "file".
C17_KindOnWire ==
    /\ \A k \in 1..Len(wire) : wire[k].data["msg_type"] = "text"
    /\ \A m \in net : m.data["msg_type"] = "file"

\* the rooms whose outbound loop has published text m, and how often
PublishedIn(m) ==
    {r \in RoomIds : \E k \in 1..Len(rooms[r].pub) : rooms[r].pub[k].text = m}
TimesPublished(r, m) ==
    Cardinality({k \in 1..Len(rooms[r].pub) : rooms[r].pub[k].text = m})

\* C18: every text the dispatcher took from the user is handed to an outbound
\* loop (the echo follows the hand-over at once) and published by it, and no
\* text is published twice (over a transport whose Publish fails only on a
\* closed topic, under the fair scheduling of SpecSend).
C18_EveryTextPublished ==
    /\ [](\A m \in 1..MaxMsgs :
            /\ Cardinality(PublishedIn(m)) <= 1
            /\ \A r \in PublishedIn(m) : TimesPublished(r, m) = 1)
    /\ \A m \in 1..MaxMsgs :
          (nextMsg > m) ~> (PublishedIn(m) # {})

\* C19: an outbound loop that stands at the log send for a failed Publish can
\* get rid of the entry and go on: the dispatcher, the only receiver of log
\* entries, is not itself blocked handing the next text to that same loop.
C19_LoopSurvivesPublishError ==
    \A r \in RoomIds :
        rooms[r].outpc = "logerr" => ~(ev.pc = "sendOut" /\ ev.outTarget = r)

\* C20: a SendFile call that returned an error has published no chunk: none
\* is counted for it and no record on the topic carries bytes of its file.
C20_NoPartialTransfer ==
    \A s \in 1..Len(sends) :
        sends[s].result # "ok"
        => /\ sends[s].emitted = 0
           /\ \A m \in net : m.data["chunk_data"][1].src # s

\* C21: every text is published with the user name the room had when the
\* text was handed to its outbound loop.
C21_NameAtHandOver ==
    \A r \in RoomIds :
        \A k \in 1..Len(rooms[r].pub) : \A j \in 1..Len(rooms[r].enq) :
            rooms[r].enq[j] = rooms[r].pub[k].text
            => rooms[r].pub[k].sender_name = rooms[r].enqUser[j]

\* C22: a goroutine that sends a text on the outbound queue of a room after
\* Leave has returned on it is never left without a receiver: the room's
\* outbound loop has not ended while the send is pending.
C22_NoBlockAfterLeave ==
    \A i \in CmdIds :
        (cmds[i].type = "enqueue" /\ cmds[i].pc = "send")
        => rooms[cmds[i].arg].outpc # "done"

\* C23: a command that is unknown or lacks its argument changes neither the
\* active room reference nor a user name nor a subscription, and does not end
\* the dispatcher; it has one log entry displayed, and none before: while its
\* log send is pending, the dispatcher's select holds, or will hold when it is
\* next entered, the LogChannel the send is on.
C23_BadCommandOneLog ==
    /\ [][\A i \in CmdIds :
             (IsBadCmd(cmds[i]) /\ cmds'[i] # cmds[i])
             => /\ active' = active
                /\ \A r \in RoomIds :
                      /\ rooms'[r].user = rooms[r].user
                      /\ rooms'[r].subCancels = rooms[r].subCancels
                      /\ rooms'[r].topicCloses = rooms[r].topicCloses
                /\ Len(rooms') = Len(rooms)
                /\ ev'.pc # "returned"]_vars
    /\ [](app.logs = Cardinality({i \in CmdIds : IsBadCmd(cmds[i]) /\ cmds[i].pc = "done"}))
    /\ [](\A i \in CmdIds :
             (IsBadCmd(cmds[i]) /\ cmds[i].pc = "log")
             => \/ cmds[i].logTarget = active /\ ev.pc # "returned"
                \/ ev.pc = "select" /\ ev.sel = cmds[i].logTarget)

\* C24: when UI.Run returns after '/quit', the room that is active has its
\* subscription cancelled, its topic closed and its context cancelled.
C24_QuitCleansActiveRoom ==
    [][(app.pc = "stopped" /\ app'.pc = "exited")
       => /\ rooms'[active'].subCancels > 0
          /\ rooms'[active'].topicCloses > 0
          /\ rooms'[active'].cancelled]_vars

\* C25: JoinRoom returns an error exactly when the topic join or the
\* subscribe fails, and then no room; otherwise the room it returns has the
\* user name given, or "guest" for an empty one, the room name given, or
\* "lobby" for an empty one, and both its loops started.
C25_JoinRoomDefaults ==
    \A j \in 1..Len(joins) :
        LET c == joins[j] IN
        /\ (c.err # "") <=> (c.joinFails \/ c.subFails)
        /\ (c.err # "") => c.chat = 0
        /\ (c.err = "") =>
              /\ c.chat \in RoomIds
              /\ rooms[c.chat].user = (IF c.username = "" THEN "guest" ELSE c.username)
              /\ rooms[c.chat].name = (IF c.room = "" THEN "lobby" ELSE c.room)
              /\ rooms[c.chat].inpc = "next"
              /\ rooms[c.chat].outpc = "select"

\* a call with both arguments empty has succeeded, one with both given has
\* succeeded, and one has failed
C25_Witness ==
    /\ \E j \in 1..Len(joins) :
          joins[j].username = "" /\ joins[j].room = "" /\ joins[j].err = ""
    /\ \E j \in 1..Len(joins) : joins[j].err = "subscribe"

\* the index, the number of bytes and the totalChunks of the chunk records
\* the read loop of SendFile publishes for a file of 10000 bytes
TenThousandShapes ==
    { LET p == Unmarshal(m.data)
      IN <<p.chunk_index, p.chunk_data[1].hi - p.chunk_data[1].lo, p.total_chunks>> :
      m \in ReadLoop(1, ResentName, 10000, 0, 0) }

\* the receiver has taken exactly these chunks of the resent file, in this order
TakenInOrder(idxs) ==
    rcv.order = [k \in 1..Len(idxs) |-> <<ResentName, idxs[k]>>]

\* C26: SendFile on a file of 10000 bytes publishes 3 chunks, of 4096, 4096
\* and 1808 bytes, each with totalChunks = 3; a receiver that takes them in the
\* order 2, 0, 1 (and no chunk of another transfer) has no completed file
\* after the first and the second, and after the third exactly one, of the
\* file's 10000 bytes.
C26_TenThousandBytes ==
    \A s \in 1..Len(sends) :
        (sends[s].size = 10000 /\ sends[s].result = "ok")
        => /\ sends[s].emitted = 3
           /\ sends[s].total = 3
           /\ TenThousandShapes = {<<0, 4096, 3>>, <<1, 4096, 3>>, <<2, 1808, 3>>}
           /\ (\A t \in 1..Len(sends) : t # s => sends[t].emitted = 0)
              => /\ (TakenInOrder(<<2>>) \/ TakenInOrder(<<2, 0>>)) => completed = <<>>
                 /\ TakenInOrder(<<2, 0, 1>>)
                    => /\ Len(completed) = 1
                       /\ completed[1].name = sends[s].name
                       /\ WrittenBytes(completed[1].chunks) = <<[src |-> s, lo |-> 0, hi |-> 10000]>>

\* the three chunks of a 10000-byte file were taken in the order 2, 0, 1
C26_Witness ==
    /\ TakenInOrder(<<2, 0, 1>>)
    /\ \E s \in 1..Len(sends) :
          /\ sends[s].size = 10000
          /\ \A t \in 1..Len(sends) : t # s => sends[t].emitted = 0
    /\ Len(completed) = 1

\* the records SendFile call s has published, in the order of its passes
PublishedSeq(s) ==
    IF sends[s].emitted = 0
    THEN <<>>
    ELSE SubSeq(ReadSeq(s, sends[s].name, sends[s].size, 0, 0), 1, sends[s].emitted)

\* C27: the chunk records a SendFile call has published are the records of
\* its passes in order; the k-th of them carries index k - 1, all carry the
\* totalChunks the call computed, and each index is below that totalChunks.
C27_ChunksInIndexOrder ==
    \A s \in 1..Len(sends) :
        LET q == PublishedSeq(s) IN
        /\ {m \in net : m.data["chunk_data"][1].src = s} = {q[k] : k \in 1..Len(q)}
        /\ \A k \in 1..Len(q) :
              LET p == Unmarshal(q[k].data) IN
              /\ p.chunk_index = k - 1
              /\ p.total_chunks = sends[s].total
              /\ p.chunk_index < p.total_chunks

\* a call has published three chunks, and another has failed after its first
C27_Witness ==
    /\ \E s \in 1..Len(sends) : sends[s].emitted = 3 /\ sends[s].result = "ok"
    /\ \E s \in 1..Len(sends) : sends[s].emitted = 1 /\ sends[s].result = "puberr"

\* the empty slots of the entry of key k, every slot of a key without entry
\* being empty (n slots)
EmptySlots(k, n) ==
    IF k \in DOMAIN fileChunks
    THEN {i \in 1..Len(fileChunks[k]) : fileChunks[k][i] = Nil}
    ELSE 1..n

\* C28: a step of the inbound loop that takes a chunk never changes a file
\* already emitted. If the chunk fills the last empty slot of its key, the
\* step emits one file, the slots of the entry in index order with the chunk
\* in its slot, and removes the entry; otherwise it emits none, and a chunk
\* whose key has no entry gets a fresh one in which only its own slot is
\* filled.
C28_CompletionRemovesEntry ==
    [][\A m \in net :
          (net' = net \ {m} /\ rcv'.pc = "next")
          => LET p == Unmarshal(m.data)
                 k == p.file_name \o p.sender_id
                 i == p.chunk_index + 1
             IN /\ SubSeq(completed', 1, Len(completed)) = completed
                /\ IF EmptySlots(k, p.total_chunks) \subseteq {i}
                   THEN /\ Len(completed') = Len(completed) + 1
                        /\ completed'[Len(completed')].name = p.file_name
                        /\ Len(completed'[Len(completed')].chunks) =
                              (IF k \in DOMAIN fileChunks THEN Len(fileChunks[k]) ELSE p.total_chunks)
                        /\ \A j \in 1..Len(completed'[Len(completed')].chunks) :
                              completed'[Len(completed')].chunks[j] =
                                  (IF j = i THEN p.chunk_data ELSE fileChunks[k][j])
                        /\ k \notin DOMAIN fileChunks'
                   ELSE /\ completed' = completed
                        /\ k \in DOMAIN fileChunks'
                        /\ k \notin DOMAIN fileChunks
                           => /\ Len(fileChunks'[k]) = p.total_chunks
                              /\ \A j \in 1..p.total_chunks :
                                    fileChunks'[k][j] = (IF j = i THEN p.chunk_data ELSE Nil)]_vars

\* a file was emitted, and a chunk that arrived afterwards has a fresh entry
\* under the same key
C28_Witness ==
    /\ Len(completed) >= 1
    /\ (completed[1].name \o SenderID) \in DOMAIN fileChunks

\* C29: while a key has an entry, a step does not change the length of its
\* slot array, and an entry made for the first chunk of a key has
\* totalChunks slots; and every file emitted has every slot non-empty.
C29_SlotArrayFixed ==
    /\ [][/\ \A k \in DOMAIN fileChunks \cap DOMAIN fileChunks' :
               Len(fileChunks'[k]) = Len(fileChunks[k])
          /\ \A m \in net :
               (net' = net \ {m} /\ (m.data["file_name"] \o m.data["sender_id"]) \notin DOMAIN fileChunks)
               => \A k \in DOMAIN fileChunks' \ DOMAIN fileChunks :
                     Len(fileChunks'[k]) = m.data["total_chunks"]
          /\ Len(completed') > Len(completed)
             => \A j \in 1..Len(completed'[Len(completed')].chunks) :
                   completed'[Len(completed')].chunks[j] # <<>>]_vars
    /\ [](\A c \in 1..Len(completed) :
             \A j \in 1..Len(completed[c].chunks) : completed[c].chunks[j] # <<>>)

\* a file of three slots was emitted, and an entry with an empty slot is held
C29_Witness ==
    /\ \E c \in 1..Len(completed) : Len(completed[c].chunks) = 3
    /\ \E k \in DOMAIN fileChunks : \E j \in 1..Len(fileChunks[k]) : fileChunks[k][j] = <<>>

\* C30: a step of the inbound loop that takes a chunk whose totalChunks is
\* not the length of the slot array its key has leaves that array and every
\* other entry as they are, emits no file, adds a log entry and leaves the
\* loop running.
C30_InconsistentTotalDropped ==
    [][\A m \in net :
          LET p == Unmarshal(m.data)
              k == p.file_name \o p.sender_id
          IN (net' = net \ {m} /\ k \in DOMAIN fileChunks /\ p.total_chunks # Len(fileChunks[k]))
             => /\ fileChunks' = fileChunks
                /\ completed' = completed
                /\ rcv'.logs = rcv.logs + 1
                /\ rcv'.pc = "next"]_vars

\* the (fileName, senderID) pairs whose bytes a slot array holds
PairsIn(slots) ==
    {slots[i][1].src : i \in {j \in 1..Len(slots) : slots[j] # <<>>}}

\* C31: no slot array, held or emitted, has bytes of two different
\* (fileName, senderID) pairs.
C31_KeyedByPair ==
    /\ \A k \in DOMAIN fileChunks : Cardinality(PairsIn(fileChunks[k])) <= 1
    /\ \A c \in 1..Len(completed) : Cardinality(PairsIn(completed[c].chunks)) <= 1

\* the records of other peers that do not decode, among those in q
BadIn(q) == {k \in 1..Len(q) : q[k].from # SenderID /\ ~Decodes(q[k].data)}

\* the records of other peers that decode, among those in q
GoodIn(q) == {k \in 1..Len(q) : q[k].from # SenderID /\ Decodes(q[k].data)}

ChunksIn(q) == {k \in GoodIn(q) : Unmarshal(q[k].data).msg_type = "file"}
TextsIn(q) == GoodIn(q) \ ChunksIn(q)

\* C33: the inbound loop never holds a file chunk for, or has put one on, the
\* inbound queue; every text it has taken from the subscription is on the
\* queue or held for it, once; a pass that takes a text leaves the transfer
\* state alone, and a pass that takes a chunk writes it to its slot in the
\* transfer state and puts nothing on the queue.
C33_RoutedByKind ==
    /\ [](\A r \in RoomIds :
             /\ \A k \in 1..Len(rooms[r].inq) : rooms[r].inq[k].msg.msg_type # "file"
             /\ rooms[r].inpc = "deliver" => rooms[r].inMsg.msg.msg_type # "file"
             /\ Len(rooms[r].inq) + (IF rooms[r].inpc = "deliver" THEN 1 ELSE 0)
                  = Cardinality(TextsIn(wire)) - Cardinality(TextsIn(rooms[r].subq))
             /\ \A j, k \in 1..Len(rooms[r].inq) :
                   j # k => rooms[r].inq[j].msg.text # rooms[r].inq[k].msg.text)
    /\ [][\A r \in RoomIds :
             /\ (Len(rooms'[r].subq) < Len(rooms[r].subq) /\ 1 \in TextsIn(rooms[r].subq))
                => (fileChunks' = fileChunks /\ completed' = completed
                    /\ rooms'[r].inpc = "deliver")
             /\ (Len(rooms'[r].subq) < Len(rooms[r].subq) /\ 1 \in ChunksIn(rooms[r].subq))
                => /\ rooms'[r].inq = rooms[r].inq
                   /\ rooms'[r].inMsg = rooms[r].inMsg
                   /\ rooms'[r].inpc = "next"
                   /\ LET p == Unmarshal(rooms[r].subq[1].data)
                          k == p.file_name \o p.sender_id
                      IN \/ /\ Len(completed') = Len(completed) + 1
                            /\ completed'[Len(completed')].chunks[p.chunk_index + 1] = p.chunk_data
                         \/ /\ completed' = completed
                            /\ k \in DOMAIN fileChunks'
                            /\ fileChunks'[k][p.chunk_index + 1] = p.chunk_data
             /\ rooms'[r].inq # rooms[r].inq
                => (fileChunks' = fileChunks /\ completed' = completed)]_vars

\* a text and a chunk were taken: the text is on the inbound queue and the
\* chunk in the transfer state
C33_Witness ==
    /\ Len(rooms[1].inq) = 1
    /\ DOMAIN fileChunks # {}
    /\ rooms[1].subq = <<>>

\* C34: once the context of the active room is cancelled, the dispatcher has
\* returned or can still get to its select: it is not blocked handing a text
\* to an outbound loop that has ended.
C34_DispatcherTerminates ==
    rooms[active].cancelled
    => ~(ev.pc = "sendOut" /\ rooms[ev.outTarget].outpc = "done")

\* C35: the step in which the dispatcher returns from its loop is taken with
\* the context of the room that is active at that moment cancelled.
C35_ExitOnlyOnActiveRoom ==
    [][(ev.pc # "returned" /\ ev'.pc = "returned") => rooms[active].cancelled]_vars

\* C36: while the dispatcher is blocked handing a text to the outbound queue
\* of the active room, that room's outbound loop is at its select or inside
\* Publish, from where it comes to take the text; it is not itself waiting
\* for the dispatcher.
C36_NoDeadlock ==
    (ev.pc = "sendOut" /\ ev.outTarget = active /\ ~rooms[active].cancelled)
    => rooms[active].outpc \in {"select", "publish"}

\* C37: no iteration of the dispatcher's loop renders a zero-value chat
\* message, that is, one taken from an inbound queue that its inbound loop
\* has closed.
C37_NoRenderAfterClose ==
    ~ev.zeroShown

\* One room switch at a time, and '/u' commands, each in its own
\* handlecommand goroutine.
NextRename ==
    \/ SwitchSteps
    \/ \E a \in RoomArgs : EvRecvCmdRIn(a)
    \/ \E name \in UserArgs : EvRecvCmdU(name)
    \/ \E i \in CmdIds : CmdUpdateUsername(i)

SpecRename == Init /\ [][NextRename]_vars

\* the name the user chose last: the argument of the latest '/u', or the name
\* the program was started with
ChosenName ==
    IF cmds = <<>> THEN SenderName ELSE cmds[Len(cmds)].arg

\* C38: once every room switch has run to its end and every '/u' has been
\* carried out, the Username of the active room is the name the user chose
\* last.
C38_NameSurvivesSwitch ==
    (/\ \A i \in SwIds : sw[i].pc \in {"done", "failed"}
     /\ \A i \in CmdIds : cmds[i].pc = "done")
    => rooms[active].user = ChosenName

====
